---- MODULE Spec2Model ----
(***************************************************************************)
(* Model of tdd_helper.py: the qtools workflow helper.  The state is the   *)
(* in-memory mapping workflow_status of one QToolsWorkflowHelper, the      *)
(* .workflow_status.json file it loads and saves, and the wall clock that  *)
(* stamps last_updated.  One action per helper method.                     *)
(*                                                                         *)
(* Observation variables: lastOp is the last call (its name, its argument  *)
(* and the workflow state the current tracker had when it was made),       *)
(* current_file the value get_current_file returned inside it, result its  *)
(* return value, and recorded the mapping of the helper as it was when the *)
(* last call returned; recorded outlives the process.                      *)
(***************************************************************************)
EXTENDS Integers, Sequences, FiniteSets, TLC

VARIABLES workflow_status, workflow_file, running, clock,
          lastOp, current_file, result, recorded

vars == <<workflow_status, workflow_file, running, clock,
          lastOp, current_file, result, recorded>>

(***************************************************************************)
(* Bounds of the model.                                                    *)
(***************************************************************************)
MaxClock == 2
MaxComments == 2
MaxWritten == 1

(***************************************************************************)
(* Optional[...] values: None is the empty tuple, a present value x is     *)
(* the one-element tuple <<x>>.                                            *)
(***************************************************************************)
None == <<>>
Some(x) == <<x>>

(***************************************************************************)
(* class WorkflowState(Enum): auto() numbers the members from 1.           *)
(***************************************************************************)
PENDING == 1
ISSUE_CREATED == 2
TESTS_PROVIDED == 3
TESTS_REVIEWED == 4
IMPLEMENTATION_PROVIDED == 5
IMPLEMENTATION_REVIEWED == 6
DOCUMENTATION_PROVIDED == 7
DOCUMENTATION_REVIEWED == 8
EXAMPLES_PROVIDED == 9
EXAMPLES_REVIEWED == 10
COMPLETED == 11

WorkflowState == PENDING..COMPLETED

\* WorkflowState member .name
WorkflowStateName ==
    <<"PENDING", "ISSUE_CREATED", "TESTS_PROVIDED", "TESTS_REVIEWED",
      "IMPLEMENTATION_PROVIDED", "IMPLEMENTATION_REVIEWED",
      "DOCUMENTATION_PROVIDED", "DOCUMENTATION_REVIEWED",
      "EXAMPLES_PROVIDED", "EXAMPLES_REVIEWED", "COMPLETED">>

(***************************************************************************)
(* class FileStatus(Enum) and class ScenarioLevel(Enum): a member is       *)
(* written by its qualified name, its .value is the string of the source.  *)
(***************************************************************************)
FileStatus ==
    {"FileStatus.PENDING", "FileStatus.TESTS_WRITTEN",
     "FileStatus.TESTS_REVIEWED", "FileStatus.CODE_IMPLEMENTED",
     "FileStatus.CODE_REVIEWED", "FileStatus.COMPLETED"}

FileStatusValue(m) ==
    CASE m = "FileStatus.PENDING"          -> "pending"
      [] m = "FileStatus.TESTS_WRITTEN"    -> "tests_written"
      [] m = "FileStatus.TESTS_REVIEWED"   -> "tests_reviewed"
      [] m = "FileStatus.CODE_IMPLEMENTED" -> "code_implemented"
      [] m = "FileStatus.CODE_REVIEWED"    -> "code_reviewed"
      [] m = "FileStatus.COMPLETED"        -> "completed"

ScenarioLevel ==
    {"ScenarioLevel.BASIC", "ScenarioLevel.INTERMEDIATE",
     "ScenarioLevel.ADVANCED"}

ScenarioLevelValue(m) ==
    CASE m = "ScenarioLevel.BASIC"        -> "basic"
      [] m = "ScenarioLevel.INTERMEDIATE" -> "intermediate"
      [] m = "ScenarioLevel.ADVANCED"     -> "advanced"

(***************************************************************************)
(* QToolsProject.files, in insertion order.                                *)
(***************************************************************************)
ProjectFiles ==
    << [source_file  |-> "src/utils/types.rs",
        test_file    |-> "tests/utils/types_tests.rs",
        example_file |-> "examples/types_usage.rs",
        scenario     |-> "ScenarioLevel.BASIC",
        dependencies |-> <<>>],
       [source_file  |-> "src/signal/weak_signal.rs",
        test_file    |-> "tests/signal/weak_signal_tests.rs",
        example_file |-> "examples/signal_analysis.rs",
        scenario     |-> "ScenarioLevel.BASIC",
        dependencies |-> <<"src/utils/types.rs">>],
       [source_file  |-> "src/pattern/recognition.rs",
        test_file    |-> "tests/pattern/recognition_tests.rs",
        example_file |-> "examples/pattern_detection.rs",
        scenario     |-> "ScenarioLevel.BASIC",
        dependencies |-> <<"src/utils/types.rs">>],
       [source_file  |-> "src/quantum/state.rs",
        test_file    |-> "tests/quantum/state_tests.rs",
        example_file |-> "examples/quantum_state.rs",
        scenario     |-> "ScenarioLevel.INTERMEDIATE",
        dependencies |-> <<"src/utils/types.rs", "src/signal/weak_signal.rs">>],
       [source_file  |-> "src/sync/phase.rs",
        test_file    |-> "tests/sync/phase_tests.rs",
        example_file |-> "examples/phase_sync.rs",
        scenario     |-> "ScenarioLevel.INTERMEDIATE",
        dependencies |-> <<"src/quantum/state.rs">>],
       [source_file  |-> "src/network/kuramoto.rs",
        test_file    |-> "tests/network/kuramoto_tests.rs",
        example_file |-> "examples/kuramoto_model.rs",
        scenario     |-> "ScenarioLevel.ADVANCED",
        dependencies |-> <<"src/quantum/state.rs", "src/sync/phase.rs">>],
       [source_file  |-> "src/network/topology.rs",
        test_file    |-> "tests/network/topology_tests.rs",
        example_file |-> "examples/network_topology.rs",
        scenario     |-> "ScenarioLevel.ADVANCED",
        dependencies |-> <<"src/network/kuramoto.rs">>],
       [source_file  |-> "src/quantum/entanglement.rs",
        test_file    |-> "tests/quantum/entanglement_tests.rs",
        example_file |-> "examples/entanglement.rs",
        scenario     |-> "ScenarioLevel.ADVANCED",
        dependencies |-> <<"src/quantum/state.rs">>] >>

(***************************************************************************)
(* Inputs of the operations.                                               *)
(***************************************************************************)
\* issue numbers typed at the prompt
IssueNumbers == {"12", "34"}
\* non-empty review comments
Comments == {"add edge cases"}
\* comment: Optional[str] = None of the approve_* methods
OptionalComments == {None} \cup {Some(c) : c \in Comments \cup {""}}
\* comment: str of request_test_changes
CommentStrings == Comments \cup {""}

(***************************************************************************)
(* A dict is the sequence of its items [k, v] in insertion order.          *)
(***************************************************************************)
Lookup(d, key) == d[CHOOSE i \in 1..Len(d) : d[i].k = key].v

\* the workflow state assigned to the tracker that follows the current one
Store_Shifted(d, key, value) ==
    [i \in 1..Len(d) |->
        IF i > 1 /\ d[i - 1].k = key
        THEN [d[i] EXCEPT !.v.workflow_state = value.workflow_state]
        ELSE d[i]]

\* the assignments made on every tracker's last_updated, not on the current
\* tracker's only
Store_TouchAll(d, key, value) ==
    [i \in 1..Len(d) |->
        IF d[i].k = key THEN [k |-> key, v |-> value]
        ELSE [d[i] EXCEPT !.v.last_updated = value.last_updated]]

\* d[key] = value for a key that is present: the position is kept
Store(d, key, value) ==
    [i \in 1..Len(d) |-> IF d[i].k = key THEN [k |-> key, v |-> value] ELSE d[i]]

(***************************************************************************)
(* save_workflow_status: asdict(v) with the three enum fields replaced by  *)
(* status.value, scenario.value and workflow_state.name; None is null.     *)
(***************************************************************************)
Serialize(v) ==
    [v EXCEPT !.status = FileStatusValue(v.status),
              !.scenario = ScenarioLevelValue(v.scenario),
              !.workflow_state = WorkflowStateName[v.workflow_state]]

\* json.dump(..., sort_keys=True): the items come out in the order of their
\* keys, which for the keys of project.files is this order of positions
SortedPositions == <<6, 7, 3, 8, 4, 2, 5, 1>>

Dump_SortKeys(ws) ==
    [i \in 1..Len(ws) |->
        LET j == IF Len(ws) = Len(SortedPositions) THEN SortedPositions[i] ELSE i
        IN  [k |-> ws[j].k, v |-> Serialize(ws[j].v)]]

Dump(ws) == [i \in 1..Len(ws) |-> [k |-> ws[i].k, v |-> Serialize(ws[i].v)]]

\* a save that returns without writing
save_workflow_status_NotWritten(ws) == workflow_file

\* open(workflow_file, 'w') and json.dump: the file exists and holds the dump;
\* closed says that the text was written to its closing brace
save_workflow_status(ws) == [exists |-> TRUE, data |-> Dump(ws), closed |-> TRUE]

\* the file of a process that died inside save_workflow_status: open(.., 'w')
\* has emptied it and json.dump has written its first n items and no more
PartialFile(ws, n) ==
    [exists |-> TRUE, data |-> SubSeq(Dump(ws), 1, n), closed |-> FALSE]

(***************************************************************************)
(* load_workflow_status, the branch of an existing file: FileStatus(x) and *)
(* ScenarioLevel(x) look a member up by value, WorkflowState[x] by name.   *)
(***************************************************************************)
FileStatusOf(x) == CHOOSE m \in FileStatus : FileStatusValue(m) = x

ScenarioLevelOf(x) == CHOOSE m \in ScenarioLevel : ScenarioLevelValue(m) = x

WorkflowStateOf(x) == CHOOSE s \in WorkflowState : WorkflowStateName[s] = x

\* json.load and the three lookups raise nothing: the text is complete and
\* every status, scenario and workflow_state names a member
Loadable(file) ==
    /\ file.closed
    /\ \A i \in 1..Len(file.data) :
           /\ \E m \in FileStatus : FileStatusValue(m) = file.data[i].v.status
           /\ \E m \in ScenarioLevel :
                  ScenarioLevelValue(m) = file.data[i].v.scenario
           /\ \E st \in WorkflowState :
                  WorkflowStateName[st] = file.data[i].v.workflow_state

Deserialize(v) ==
    [v EXCEPT !.status = FileStatusOf(v.status),
              !.scenario = ScenarioLevelOf(v.scenario),
              !.workflow_state = WorkflowStateOf(v.workflow_state)]

Parse(data) ==
    [i \in 1..Len(data) |-> [k |-> data[i].k, v |-> Deserialize(data[i].v)]]

(***************************************************************************)
(* load_workflow_status, the branch of a missing file: one tracker per     *)
(* entry of project.files, stamped with the time of the call.              *)
(***************************************************************************)
\* a tracker seeded one state too far
NewTracker_IssueCreated(info, now) ==
    [source_file |-> info.source_file,
     test_file |-> info.test_file,
     example_file |-> Some(info.example_file),
     status |-> "FileStatus.PENDING",
     scenario |-> info.scenario,
     workflow_state |-> ISSUE_CREATED,
     issue_number |-> None,
     last_updated |-> now,
     notes |-> <<>>,
     dependencies |-> info.dependencies,
     acceptance_criteria |-> <<>>,
     test_review_comments |-> <<>>,
     implementation_review_comments |-> <<>>,
     documentation_review_comments |-> <<>>,
     examples_review_comments |-> <<>>]

NewTracker(info, now) ==
    [source_file |-> info.source_file,
     test_file |-> info.test_file,
     example_file |-> Some(info.example_file),
     status |-> "FileStatus.PENDING",
     scenario |-> info.scenario,
     workflow_state |-> PENDING,
     issue_number |-> None,
     last_updated |-> now,
     notes |-> <<>>,
     dependencies |-> info.dependencies,
     acceptance_criteria |-> <<>>,
     test_review_comments |-> <<>>,
     implementation_review_comments |-> <<>>,
     documentation_review_comments |-> <<>>,
     examples_review_comments |-> <<>>]

SeedFromProject(now) ==
    [i \in 1..Len(ProjectFiles) |->
        [k |-> ProjectFiles[i].source_file, v |-> NewTracker(ProjectFiles[i], now)]]

(***************************************************************************)
(* get_next_task and get_current_file.                                     *)
(***************************************************************************)
\* deps_completed with any() for all()
deps_completed_Any(ws, tracker) ==
    \E j \in 1..Len(tracker.dependencies) :
        Lookup(ws, tracker.dependencies[j]).workflow_state = COMPLETED

deps_completed(ws, tracker) ==
    \A j \in 1..Len(tracker.dependencies) :
        Lookup(ws, tracker.dependencies[j]).workflow_state = COMPLETED

\* get_next_task without the test "workflow_state != COMPLETED"
RECURSIVE NextTaskFrom_NoCompletedTest(_, _)
NextTaskFrom_NoCompletedTest(ws, i) ==
    IF i > Len(ws) THEN None
    ELSE IF deps_completed(ws, ws[i].v)
         THEN Some(ws[i].k)
         ELSE NextTaskFrom_NoCompletedTest(ws, i + 1)

\* get_next_task with "if deps_completed" negated
RECURSIVE NextTaskFrom_NegatedDeps(_, _)
NextTaskFrom_NegatedDeps(ws, i) ==
    IF i > Len(ws) THEN None
    ELSE IF ws[i].v.workflow_state # COMPLETED /\ ~deps_completed(ws, ws[i].v)
         THEN Some(ws[i].k)
         ELSE NextTaskFrom_NegatedDeps(ws, i + 1)

\* get_next_task giving up at the first tracker that is held back
RECURSIVE NextTaskFrom_StopAtFirst(_, _)
NextTaskFrom_StopAtFirst(ws, i) ==
    IF i > Len(ws) THEN None
    ELSE IF ws[i].v.workflow_state # COMPLETED
         THEN IF deps_completed(ws, ws[i].v) THEN Some(ws[i].k) ELSE None
         ELSE NextTaskFrom_StopAtFirst(ws, i + 1)

RECURSIVE NextTaskFrom(_, _)
NextTaskFrom(ws, i) ==
    IF i > Len(ws) THEN None
    ELSE IF ws[i].v.workflow_state # COMPLETED /\ deps_completed(ws, ws[i].v)
         THEN Some(ws[i].k)
         ELSE NextTaskFrom(ws, i + 1)

\* get_next_task returning the first key of the mapping
get_next_task_FirstKey(ws) == IF Len(ws) = 0 THEN None ELSE Some(ws[1].k)

get_next_task(ws) == NextTaskFrom(ws, 1)

get_current_file(ws) == get_next_task(ws)

(***************************************************************************)
(* datetime.datetime.now(): the clock never runs backwards between two     *)
(* readings; it stops at MaxClock.                                         *)
(***************************************************************************)
Now == {t \in clock..MaxClock : t <= clock + 1}

(***************************************************************************)
(* Initial state: the project directory has no state file and no helper    *)
(* has been constructed.                                                   *)
(***************************************************************************)
NoFile == [exists |-> FALSE, data |-> <<>>, closed |-> FALSE]

Init ==
    /\ workflow_status = <<>>
    /\ workflow_file = NoFile
    /\ running = FALSE
    /\ clock = 0
    /\ lastOp = [name |-> "none", arg |-> None, from |-> 0]
    /\ current_file = None
    /\ result = "none"
    /\ recorded = <<>>

(***************************************************************************)
(* QToolsWorkflowHelper.__init__: workflow_status = {} and then            *)
(* load_workflow_status(), which reads the file if it exists and otherwise *)
(* seeds the trackers from the project and saves them.  An exception of    *)
(* json.load or of an enum lookup leaves __init__ and QToolsPrompt and is  *)
(* caught in main, which prints it and exits with status 1.                *)
(***************************************************************************)
\* load_workflow_status without the test of workflow_file.exists()
load_workflow_status_AlwaysSeed ==
    /\ ~running
    /\ running' = TRUE
    /\ current_file' = None
    /\ result' = "none"
    /\ lastOp' = [name |-> IF workflow_file.exists THEN "load_existing"
                           ELSE "load_missing",
                  arg |-> None, from |-> 0]
    /\ \E now \in Now :
            /\ workflow_status' = SeedFromProject(now)
            /\ workflow_file' = save_workflow_status(workflow_status')
            /\ clock' = now
    /\ recorded' = workflow_status'

\* load_workflow_status with the exceptions of the load caught and answered
\* by seeding, as for a missing file
load_workflow_status_SeedOnError ==
    /\ ~running
    /\ current_file' = None
    /\ lastOp' = [name |-> IF workflow_file.exists THEN "load_existing"
                           ELSE "load_missing",
                  arg |-> None, from |-> 0]
    /\ running' = TRUE
    /\ result' = "none"
    /\ IF workflow_file.exists /\ Loadable(workflow_file)
       THEN /\ workflow_status' = Parse(workflow_file.data)
            /\ UNCHANGED <<workflow_file, clock>>
       ELSE \E now \in Now :
            /\ workflow_status' = SeedFromProject(now)
            /\ workflow_file' = save_workflow_status(workflow_status')
            /\ clock' = now
    /\ recorded' = workflow_status'

load_workflow_status ==
    /\ ~running
    /\ current_file' = None
    /\ lastOp' = [name |-> IF workflow_file.exists THEN "load_existing"
                           ELSE "load_missing",
                  arg |-> None, from |-> 0]
    /\ IF workflow_file.exists /\ ~Loadable(workflow_file)
       THEN /\ result' = "Error"
            /\ UNCHANGED <<workflow_status, workflow_file, running, clock, recorded>>
       ELSE /\ running' = TRUE
            /\ result' = "none"
            /\ IF workflow_file.exists
               THEN /\ workflow_status' = Parse(workflow_file.data)
                    /\ UNCHANGED <<workflow_file, clock>>
               ELSE \E now \in Now :
                    /\ workflow_status' = SeedFromProject(now)
                    /\ workflow_file' = save_workflow_status(workflow_status')
                    /\ clock' = now
            /\ recorded' = workflow_status'

(***************************************************************************)
(* The process ends (quit, exit, Ctrl-C): the helper and its mapping are   *)
(* gone, the file stays.                                                   *)
(***************************************************************************)
do_quit ==
    /\ running
    /\ running' = FALSE
    /\ workflow_status' = <<>>
    /\ lastOp' = [name |-> "quit", arg |-> None, from |-> 0]
    /\ current_file' = None
    /\ result' = "none"
    /\ UNCHANGED <<workflow_file, clock, recorded>>

\* record_issue without the assignment to last_updated
record_issue_tracker_NoTimestamp(tracker, issue_number, now) ==
    [tracker EXCEPT !.issue_number = Some(issue_number),
                    !.workflow_state = ISSUE_CREATED]

(***************************************************************************)
(* The action methods.  Each one resolves the current file, returns False  *)
(* without touching anything when there is none, and otherwise rewrites    *)
(* fields of that tracker, stamps last_updated, saves and returns True.    *)
(* The source tests no workflow_state before it assigns the new one.       *)
(***************************************************************************)
\* lines 356-359
record_issue_tracker(tracker, issue_number, now) ==
    [tracker EXCEPT !.issue_number = Some(issue_number),
                    !.workflow_state = ISSUE_CREATED,
                    !.last_updated = now]

\* record_tests assigning the state of approve_tests
record_tests_tracker_WrongState(tracker, now) ==
    [tracker EXCEPT !.workflow_state = TESTS_REVIEWED,
                    !.status = "FileStatus.TESTS_WRITTEN",
                    !.last_updated = now]

\* lines 372-375
record_tests_tracker(tracker, now) ==
    [tracker EXCEPT !.workflow_state = TESTS_PROVIDED,
                    !.status = "FileStatus.TESTS_WRITTEN",
                    !.last_updated = now]

\* "if comment:" is false for None and for the empty string
Truthy(comment) == comment # None /\ comment # Some("")

\* approve_tests with "if comment is not None:" for "if comment:"
approve_tests_tracker_NotNoneTest(tracker, comment, now) ==
    [tracker EXCEPT !.workflow_state = TESTS_REVIEWED,
                    !.status = "FileStatus.TESTS_REVIEWED",
                    !.test_review_comments =
                        IF comment # None THEN Append(@, comment[1]) ELSE @,
                    !.last_updated = now]

\* lines 388-393
approve_tests_tracker(tracker, comment, now) ==
    [tracker EXCEPT !.workflow_state = TESTS_REVIEWED,
                    !.status = "FileStatus.TESTS_REVIEWED",
                    !.test_review_comments =
                        IF Truthy(comment) THEN Append(@, comment[1]) ELSE @,
                    !.last_updated = now]

\* request_test_changes with "test_review_comments = [comment]" for append
request_test_changes_tracker_ResetLog(tracker, comment, now) ==
    [tracker EXCEPT !.workflow_state = ISSUE_CREATED,
                    !.test_review_comments = <<comment>>,
                    !.last_updated = now]

\* request_test_changes with insert(0, comment) for append(comment)
request_test_changes_tracker_Prepend(tracker, comment, now) ==
    [tracker EXCEPT !.workflow_state = ISSUE_CREATED,
                    !.test_review_comments = <<comment>> \o @,
                    !.last_updated = now]

\* lines 406-409
request_test_changes_tracker(tracker, comment, now) ==
    [tracker EXCEPT !.workflow_state = ISSUE_CREATED,
                    !.test_review_comments = Append(@, comment),
                    !.last_updated = now]

\* lines 423-426
record_implementation_tracker(tracker, now) ==
    [tracker EXCEPT !.workflow_state = IMPLEMENTATION_PROVIDED,
                    !.status = "FileStatus.CODE_IMPLEMENTED",
                    !.last_updated = now]

\* lines 439-444
approve_implementation_tracker(tracker, comment, now) ==
    [tracker EXCEPT !.workflow_state = IMPLEMENTATION_REVIEWED,
                    !.status = "FileStatus.CODE_REVIEWED",
                    !.implementation_review_comments =
                        IF Truthy(comment) THEN Append(@, comment[1]) ELSE @,
                    !.last_updated = now]

\* workflow state of the current tracker at the time of a call, 0 without one
StateOfCurrent ==
    IF get_current_file(workflow_status) = None THEN 0
    ELSE Lookup(workflow_status, get_current_file(workflow_status)[1]).workflow_state

\* tracker = self.workflow_status[current_file]
CurrentTracker ==
    Lookup(workflow_status, get_current_file(workflow_status)[1])

\* the frame without "return False" meaning failure: no current file is
\* reported as success
Method_NoneSucceeds(name, arg, now, room, tracker) ==
    /\ running
    /\ lastOp' = [name |-> name, arg |-> arg, from |-> StateOfCurrent]
    /\ current_file' = get_current_file(workflow_status)
    /\ IF current_file' = None
       THEN /\ result' = "True"
            /\ UNCHANGED <<workflow_status, workflow_file, running, clock, recorded>>
       ELSE /\ room
            /\ workflow_status' = Store(workflow_status, current_file'[1], tracker)
            /\ clock' = now
            /\ workflow_file' = save_workflow_status(workflow_status')
            /\ result' = "True"
            /\ recorded' = workflow_status'
            /\ UNCHANGED running

\* the frame shared by the six methods: name and arg are the call, now the
\* reading of the clock, tracker the current tracker after the assignments;
\* room bounds the growth of a log
Method(name, arg, now, room, tracker) ==
    /\ running
    /\ lastOp' = [name |-> name, arg |-> arg, from |-> StateOfCurrent]
    /\ current_file' = get_current_file(workflow_status)
    /\ IF current_file' = None
       THEN /\ result' = "False"
            /\ UNCHANGED <<workflow_status, workflow_file, running, clock, recorded>>
       ELSE /\ room
            /\ workflow_status' = Store(workflow_status, current_file'[1], tracker)
            /\ clock' = now
            /\ workflow_file' = save_workflow_status(workflow_status')
            /\ result' = "True"
            /\ recorded' = workflow_status'
            /\ UNCHANGED running

TestLogRoom(tracker) == Len(tracker.test_review_comments) < MaxComments

ImplementationLogRoom(tracker) ==
    Len(tracker.implementation_review_comments) < MaxComments

record_issue(issue_number) ==
    \E now \in Now :
        Method("record_issue", Some(issue_number), now, TRUE,
               record_issue_tracker(CurrentTracker, issue_number, now))

record_tests ==
    \E now \in Now :
        Method("record_tests", None, now, TRUE,
               record_tests_tracker(CurrentTracker, now))

approve_tests(comment) ==
    \E now \in Now :
        Method("approve_tests", comment, now,
               Truthy(comment) => TestLogRoom(CurrentTracker),
               approve_tests_tracker(CurrentTracker, comment, now))

request_test_changes(comment) ==
    \E now \in Now :
        Method("request_test_changes", Some(comment), now,
               TestLogRoom(CurrentTracker),
               request_test_changes_tracker(CurrentTracker, comment, now))

record_implementation ==
    \E now \in Now :
        Method("record_implementation", None, now, TRUE,
               record_implementation_tracker(CurrentTracker, now))

approve_implementation(comment) ==
    \E now \in Now :
        Method("approve_implementation", comment, now,
               Truthy(comment) => ImplementationLogRoom(CurrentTracker),
               approve_implementation_tracker(CurrentTracker, comment, now))

(***************************************************************************)
(* workflow_sequence: the action name of each state; COMPLETED has no      *)
(* entry.  get_next_action looks the current tracker's state up in it.     *)
(***************************************************************************)
\* workflow_sequence without the entry of WorkflowState.PENDING
workflow_sequence_NoPending ==
    [s \in ISSUE_CREATED..EXAMPLES_REVIEWED |->
        <<"Create GitHub Issue", "Get Tests from Claude", "Review Tests",
          "Get Implementation from Claude", "Review Implementation",
          "Get Documentation from Claude", "Review Documentation",
          "Get Examples from Claude", "Review Examples",
          "Component Development Completed">>[s]]

workflow_sequence ==
    [s \in PENDING..EXAMPLES_REVIEWED |->
        <<"Create GitHub Issue", "Get Tests from Claude", "Review Tests",
          "Get Implementation from Claude", "Review Implementation",
          "Get Documentation from Claude", "Review Documentation",
          "Get Examples from Claude", "Review Examples",
          "Component Development Completed">>[s]]

get_next_action ==
    /\ running
    /\ lastOp' = [name |-> "get_next_action", arg |-> None, from |-> StateOfCurrent]
    /\ current_file' = get_current_file(workflow_status)
    /\ result' =
         IF current_file' = None
         THEN "All Scenario 1 files completed!"
         ELSE IF Lookup(workflow_status, current_file'[1]).workflow_state
                     \in DOMAIN workflow_sequence
              THEN workflow_sequence[
                       Lookup(workflow_status, current_file'[1]).workflow_state]
              ELSE "KeyError"
    /\ UNCHANGED <<workflow_status, workflow_file, running, clock, recorded>>

(***************************************************************************)
(* QToolsPrompt.do_request_implementation_changes: an empty comment is     *)
(* refused with a message.  With a comment the command calls               *)
(* helper.request_implementation_changes, which QToolsWorkflowHelper does  *)
(* not define: the AttributeError leaves cmdloop and main exits with       *)
(* status 1.                                                               *)
(***************************************************************************)
do_request_implementation_changes(comment) ==
    /\ running
    /\ lastOp' = [name |-> "do_request_implementation_changes",
                  arg |-> Some(comment), from |-> StateOfCurrent]
    /\ current_file' = None
    /\ IF comment = ""
       THEN /\ result' = "none"
            /\ UNCHANGED <<workflow_status, workflow_file, running, clock, recorded>>
       ELSE /\ result' = "Error"
            /\ running' = FALSE
            /\ workflow_status' = <<>>
            /\ UNCHANGED <<workflow_file, clock, recorded>>

Next ==
    \/ load_workflow_status
    \/ do_quit
    \/ \E issue_number \in IssueNumbers : record_issue(issue_number)
    \/ record_tests
    \/ \E comment \in OptionalComments : approve_tests(comment)
    \/ \E comment \in CommentStrings : request_test_changes(comment)
    \/ record_implementation
    \/ \E comment \in OptionalComments : approve_implementation(comment)
    \/ get_next_action
    \/ \E comment \in CommentStrings : do_request_implementation_changes(comment)

Spec == Init /\ [][Next]_vars

(***************************************************************************)
(* Crashes and damaged files: a third specification adds to the steps of   *)
(* the program the death of the process inside save_workflow_status (of    *)
(* any of the six methods or of the first run) and a state file that       *)
(* carries a workflow_state no member is named by.                         *)
(***************************************************************************)
\* the trackers the six methods would assign to the current tracker at now
MethodTrackers(now) ==
    {record_issue_tracker(CurrentTracker, i, now) : i \in IssueNumbers}
    \cup {record_tests_tracker(CurrentTracker, now),
          record_implementation_tracker(CurrentTracker, now)}
    \cup {approve_tests_tracker(CurrentTracker, c, now) :
             c \in {x \in OptionalComments :
                       Truthy(x) => TestLogRoom(CurrentTracker)}}
    \cup {request_test_changes_tracker(CurrentTracker, c, now) :
             c \in {x \in CommentStrings : TestLogRoom(CurrentTracker)}}
    \cup {approve_implementation_tracker(CurrentTracker, c, now) :
             c \in {x \in OptionalComments :
                       Truthy(x) => ImplementationLogRoom(CurrentTracker)}}

\* the mappings a call of save_workflow_status can be writing at now: the
\* mapping of a method of the running helper, or the seed of a first run
MappingsToSave(now) ==
    IF running
    THEN IF get_current_file(workflow_status) = None THEN {}
         ELSE {Store(workflow_status, get_current_file(workflow_status)[1], t) :
                  t \in MethodTrackers(now)}
    ELSE IF workflow_file.exists THEN {} ELSE {SeedFromProject(now)}

\* the process dies inside save_workflow_status, after open(workflow_file,
\* 'w') and before json.dump has written the last item: a prefix of the dump,
\* of at most MaxWritten items, has reached the file.  (A death after the
\* last byte leaves what the method followed by do_quit leaves.)
crash_in_save ==
    /\ \E now \in Now :
         /\ clock' = now
         /\ \E ws \in MappingsToSave(now) :
              \E n \in 0..(Len(ws) - 1) :
                  /\ n <= MaxWritten
                  /\ workflow_file' = PartialFile(ws, n)
    /\ running' = FALSE
    /\ workflow_status' = <<>>
    /\ lastOp' = [name |-> "crash_in_save", arg |-> None,
                  from |-> IF running THEN StateOfCurrent ELSE 0]
    /\ current_file' = None
    /\ result' = "none"
    /\ UNCHANGED recorded

\* a workflow_state name that WorkflowState does not have
UnknownStateName == "DONE"

\* between two runs the file comes to hold an unknown workflow_state name
corrupt_state_file ==
    /\ ~running
    /\ workflow_file.exists
    /\ Loadable(workflow_file)
    /\ \E i \in 1..Len(workflow_file.data) :
         workflow_file' =
             [workflow_file EXCEPT !.data[i].v.workflow_state = UnknownStateName]
    /\ lastOp' = [name |-> "corrupt_state_file", arg |-> None, from |-> 0]
    /\ current_file' = None
    /\ result' = "none"
    /\ UNCHANGED <<workflow_status, running, clock, recorded>>

NextCrash ==
    \/ Next
    \/ crash_in_save
    \/ corrupt_state_file

SpecCrash == Init /\ [][NextCrash]_vars

(***************************************************************************)
(* The scheduler as a function of the mapping: a second specification      *)
(* starts a running helper on a mapping whose workflow states are drawn    *)
(* from SchedStates, one per project file, and applies get_next_action and *)
(* the two methods that take no argument.                                  *)
(***************************************************************************)
SchedStates == {PENDING, TESTS_REVIEWED, COMPLETED}

InitSched ==
    \E g \in [1..Len(ProjectFiles) -> SchedStates] :
        /\ workflow_status =
               [i \in 1..Len(ProjectFiles) |->
                   [k |-> ProjectFiles[i].source_file,
                    v |-> [NewTracker(ProjectFiles[i], 0)
                              EXCEPT !.workflow_state = g[i]]]]
        /\ workflow_file = save_workflow_status(workflow_status)
        /\ running = TRUE
        /\ clock = MaxClock
        /\ lastOp = [name |-> "none", arg |-> None, from |-> 0]
        /\ current_file = None
        /\ result = "none"
        /\ recorded = workflow_status

NextSched ==
    \/ get_next_action
    \/ record_tests
    \/ record_implementation

SpecSched == InitSched /\ [][NextSched]_vars

(***************************************************************************)
(* The six methods on a project in progress: a third specification starts  *)
(* a running helper on the mapping of a project whose first Done files, in *)
(* the order of the mapping, are COMPLETED under an issue, the others      *)
(* PENDING; Done = Len(ProjectFiles) is the finished project.              *)
(***************************************************************************)
InitEngine ==
    \E Done \in 0..Len(ProjectFiles) :
        /\ workflow_status =
               [i \in 1..Len(ProjectFiles) |->
                   [k |-> ProjectFiles[i].source_file,
                    v |-> IF i <= Done
                          THEN [NewTracker(ProjectFiles[i], 0)
                                   EXCEPT !.workflow_state = COMPLETED,
                                          !.issue_number = Some("12")]
                          ELSE NewTracker(ProjectFiles[i], 0)]]
        /\ workflow_file = save_workflow_status(workflow_status)
        /\ running = TRUE
        /\ clock = MaxClock
        /\ lastOp = [name |-> "none", arg |-> None, from |-> 0]
        /\ current_file = None
        /\ result = "none"
        /\ recorded = workflow_status

NextEngine ==
    \/ \E issue_number \in IssueNumbers : record_issue(issue_number)
    \/ record_tests
    \/ \E comment \in OptionalComments : approve_tests(comment)
    \/ \E comment \in CommentStrings : request_test_changes(comment)
    \/ record_implementation
    \/ \E comment \in OptionalComments : approve_implementation(comment)
    \/ get_next_action

SpecEngine == InitEngine /\ [][NextEngine]_vars

(***************************************************************************)
(* get_next_task over other registries: a fourth specification draws the   *)
(* dependencies of three files, in any order relative to the order of the  *)
(* mapping as long as they are acyclic, and the workflow state of each.    *)
(***************************************************************************)
RegFiles == <<"a.rs", "b.rs", "c.rs">>

\* the lists of dependencies file i may declare: files other than itself
DepChoices(i) ==
    LET o == SelectSeq(RegFiles, LAMBDA f : f # RegFiles[i])
    IN  {<<>>, <<o[1]>>, <<o[2]>>, o}

\* some order of the files puts every dependency before its dependent
Acyclic(deps) ==
    \E rank \in [1..Len(RegFiles) -> 1..Len(RegFiles)] :
        \A i \in 1..Len(RegFiles) :
            \A j \in 1..Len(deps[i]) :
                \A d \in 1..Len(RegFiles) :
                    RegFiles[d] = deps[i][j] => rank[d] < rank[i]

InitReg ==
    \E deps \in [1..Len(RegFiles) -> UNION {DepChoices(i) : i \in 1..Len(RegFiles)}] :
    \E g \in [1..Len(RegFiles) -> SchedStates] :
        /\ \A i \in 1..Len(RegFiles) : deps[i] \in DepChoices(i)
        /\ Acyclic(deps)
        /\ workflow_status =
               [i \in 1..Len(RegFiles) |->
                   [k |-> RegFiles[i],
                    v |-> [NewTracker([source_file  |-> RegFiles[i],
                                       test_file    |-> "tests.rs",
                                       example_file |-> "example.rs",
                                       scenario     |-> "ScenarioLevel.BASIC",
                                       dependencies |-> deps[i]], 0)
                              EXCEPT !.workflow_state = g[i]]]]
        /\ workflow_file = save_workflow_status(workflow_status)
        /\ running = TRUE
        /\ clock = MaxClock
        /\ lastOp = [name |-> "none", arg |-> None, from |-> 0]
        /\ current_file = None
        /\ result = "none"
        /\ recorded = workflow_status

SpecReg == InitReg /\ [][NextSched]_vars

(***************************************************************************)
(* QToolsProject.__init__ assigns the dictionary of files and returns: the *)
(* dependencies are not looked at.  A fifth specification draws the        *)
(* dependencies of the three files as InitReg does, without asking that    *)
(* they be acyclic, and constructs the helper on them.                     *)
(***************************************************************************)
InitAnyReg ==
    \E deps \in [1..Len(RegFiles) -> UNION {DepChoices(i) : i \in 1..Len(RegFiles)}] :
    \E g \in [1..Len(RegFiles) -> SchedStates] :
        /\ \A i \in 1..Len(RegFiles) : deps[i] \in DepChoices(i)
        /\ workflow_status =
               [i \in 1..Len(RegFiles) |->
                   [k |-> RegFiles[i],
                    v |-> [NewTracker([source_file  |-> RegFiles[i],
                                       test_file    |-> "tests.rs",
                                       example_file |-> "example.rs",
                                       scenario     |-> "ScenarioLevel.BASIC",
                                       dependencies |-> deps[i]], 0)
                              EXCEPT !.workflow_state = g[i]]]]
        /\ workflow_file = save_workflow_status(workflow_status)
        /\ running = TRUE
        /\ clock = MaxClock
        /\ lastOp = [name |-> "none", arg |-> None, from |-> 0]
        /\ current_file = None
        /\ result = "none"
        /\ recorded = workflow_status

SpecAnyReg == InitAnyReg /\ [][NextSched]_vars

TypeOK ==
    /\ running \in BOOLEAN
    /\ clock \in 0..MaxClock
    /\ result \in {"none", "True", "False", "Error",
                   "All Scenario 1 files completed!"}
                 \cup {workflow_sequence[s] : s \in DOMAIN workflow_sequence}
    /\ running => Len(workflow_status) = Len(ProjectFiles)

(***************************************************************************)
(* Vocabulary of the properties.                                           *)
(***************************************************************************)
RegistryIds == {ProjectFiles[i].source_file : i \in 1..Len(ProjectFiles)}

RegistryDependencies(id) ==
    LET e == ProjectFiles[CHOOSE i \in 1..Len(ProjectFiles) :
                              ProjectFiles[i].source_file = id]
    IN  {e.dependencies[j] : j \in 1..Len(e.dependencies)}

Gate(ws, id) == Lookup(ws, id).workflow_state

\* positions, in registry order, of the components that are not COMPLETED
\* and whose registry dependencies are all COMPLETED
EligiblePositions(ws) ==
    {i \in 1..Len(ProjectFiles) :
        /\ Gate(ws, ProjectFiles[i].source_file) # COMPLETED
        /\ \A d \in RegistryDependencies(ProjectFiles[i].source_file) :
               Gate(ws, d) = COMPLETED}

FirstEligible(ws) ==
    IF EligiblePositions(ws) = {} THEN None
    ELSE Some(ProjectFiles[CHOOSE i \in EligiblePositions(ws) :
                  \A j \in EligiblePositions(ws) : i <= j].source_file)

HasIncompleteDependency(ws, id) ==
    \E d \in RegistryDependencies(id) : Gate(ws, d) # COMPLETED

\* C2: in every state of a running helper the current task is the first
\* component, in registry order, that is not COMPLETED and whose dependencies
\* are all COMPLETED (none when there is no such component); it is determined
\* by the registry order and the gates alone.
C2_CurrentTaskIsFirstEligible ==
    running => get_current_file(workflow_status) = FirstEligible(workflow_status)

\* a later component was looked up as current while earlier ones are COMPLETED
C2_Witness ==
    /\ lastOp.name = "get_next_action"
    /\ current_file = Some("src/quantum/state.rs")
    /\ Gate(workflow_status, "src/quantum/state.rs") = TESTS_REVIEWED
    /\ Gate(workflow_status, "src/sync/phase.rs") = PENDING

\* C3: a component with a dependency that is not COMPLETED is never the
\* current task, and no method changes its record.
C3_DependencyGating ==
    [][\A id \in RegistryIds :
          HasIncompleteDependency(workflow_status, id) =>
              /\ get_current_file(workflow_status) # Some(id)
              /\ Lookup(workflow_status', id) = Lookup(workflow_status, id)]_vars

\* a method has changed the current task while a component that is under way
\* is held back by its incomplete dependency on it
C3_Witness ==
    /\ lastOp.name = "record_tests"
    /\ result = "True"
    /\ current_file = Some("src/signal/weak_signal.rs")
    /\ Gate(workflow_status, "src/signal/weak_signal.rs") = TESTS_PROVIDED
    /\ HasIncompleteDependency(workflow_status, "src/quantum/state.rs")
    /\ Gate(workflow_status, "src/quantum/state.rs") = TESTS_REVIEWED
    /\ Gate(workflow_status, "src/pattern/recognition.rs") = COMPLETED

(***************************************************************************)
(* The state machine of the specification: the source state each action    *)
(* requires and the state it leads to.                                     *)
(***************************************************************************)
RequiredSource ==
    [record_issue |-> PENDING,
     record_tests |-> ISSUE_CREATED,
     approve_tests |-> TESTS_PROVIDED,
     request_test_changes |-> TESTS_PROVIDED,
     record_implementation |-> TESTS_REVIEWED,
     approve_implementation |-> IMPLEMENTATION_PROVIDED]

ForwardTarget ==
    [record_issue |-> ISSUE_CREATED,
     record_tests |-> TESTS_PROVIDED,
     approve_tests |-> TESTS_REVIEWED,
     record_implementation |-> IMPLEMENTATION_PROVIDED,
     approve_implementation |-> IMPLEMENTATION_REVIEWED]

\* C1: an action invoked while the current task is in a state other than the
\* action's required source state fails and leaves the mapping and the file
\* unchanged.
C1_IllegalActionRejected ==
    [][(/\ lastOp'.name \in DOMAIN RequiredSource
        /\ lastOp'.from # 0
        /\ lastOp'.from # RequiredSource[lastOp'.name])
       => /\ result' # "True"
          /\ workflow_status' = workflow_status
          /\ workflow_file' = workflow_file]_vars

\* C4: from every state before COMPLETED the helper has a method that moves
\* the current task one state forward, so that the forward actions applied
\* in order bring it to COMPLETED.
C4_ForwardActionAvailable ==
    (running /\ StateOfCurrent # 0 /\ StateOfCurrent < COMPLETED)
        => ENABLED (/\ Next
                    /\ running'
                    /\ Gate(workflow_status', get_current_file(workflow_status)[1])
                           = StateOfCurrent + 1)

\* C5: a forward action invoked while the current task is in the action's
\* source state leaves it in the target state of the table, and record_issue
\* stores its argument as the issue reference.
C5_ForwardTransition ==
    (/\ lastOp.name \in DOMAIN ForwardTarget
     /\ lastOp.from = RequiredSource[lastOp.name]
     /\ result = "True")
    => /\ current_file # None
       /\ Gate(workflow_status, current_file[1]) = ForwardTarget[lastOp.name]
       /\ lastOp.name = "record_issue" =>
              Lookup(workflow_status, current_file[1]).issue_number = lastOp.arg

\* record_tests has moved the current task from ISSUE_CREATED to TESTS_PROVIDED
C5_Witness ==
    /\ lastOp.name = "record_tests"
    /\ lastOp.from = ISSUE_CREATED
    /\ result = "True"
    /\ Gate(workflow_status, "src/utils/types.rs") = TESTS_PROVIDED
    /\ Lookup(workflow_status, "src/utils/types.rs").issue_number = Some("34")

\* C6: every change of a record's state moves it to a later state, except
\* the rollbacks TESTS_PROVIDED -> ISSUE_CREATED by request_test_changes and
\* IMPLEMENTATION_PROVIDED -> TESTS_REVIEWED by request_implementation_changes.
C6_Monotonic ==
    [][(running /\ running') =>
          \A i \in 1..Len(workflow_status) :
              LET old == workflow_status[i].v.workflow_state
                  new == workflow_status'[i].v.workflow_state
              IN  new # old =>
                     \/ new > old
                     \/ /\ lastOp'.name = "request_test_changes"
                        /\ old = TESTS_PROVIDED
                        /\ new = ISSUE_CREATED
                     \/ /\ lastOp'.name = "request_implementation_changes"
                        /\ old = IMPLEMENTATION_PROVIDED
                        /\ new = TESTS_REVIEWED]_vars

\* C7: when a method has returned success the file holds the mapping of the
\* helper, and at any time the file, once written, loads as the mapping the
\* last call left.
C7_SavedBeforeSuccess ==
    /\ (running /\ result = "True") =>
           /\ workflow_file.exists
           /\ workflow_file.data = Dump(workflow_status)
    /\ recorded # <<>> =>
           /\ workflow_file.exists
           /\ Parse(workflow_file.data) = recorded

\* a rollback with its comment has been saved
C7_Witness ==
    /\ lastOp.name = "request_test_changes"
    /\ lastOp.from = TESTS_PROVIDED
    /\ result = "True"
    /\ Lookup(workflow_status, "src/utils/types.rs").test_review_comments
           = <<"add edge cases">>
    /\ Parse(workflow_file.data) = workflow_status

\* C8: saving a mapping and loading what was saved gives the mapping back,
\* field for field and in the same key order.
C8_RoundTrip ==
    running =>
        /\ save_workflow_status(workflow_status).exists
        /\ Parse(save_workflow_status(workflow_status).data) = workflow_status

\* a mapping with an issue reference and comments in both logs has been saved
\* by one process and loaded by the next
C8_Witness ==
    /\ lastOp.name = "load_existing"
    /\ running
    /\ Gate(workflow_status, "src/utils/types.rs") = IMPLEMENTATION_REVIEWED
    /\ Lookup(workflow_status, "src/utils/types.rs").issue_number = Some("12")
    /\ Lookup(workflow_status, "src/utils/types.rs").test_review_comments
           = <<"", "add edge cases">>
    /\ Lookup(workflow_status, "src/utils/types.rs").implementation_review_comments
           = <<"add edge cases">>

\* what a record has that its initial value has not
Progressed(old, new) ==
    /\ old.workflow_state # PENDING => new.workflow_state # PENDING
    /\ old.issue_number # None => new.issue_number # None
    /\ old.notes # <<>> => new.notes # <<>>
    /\ old.test_review_comments # <<>> => new.test_review_comments # <<>>
    /\ old.implementation_review_comments # <<>>
           => new.implementation_review_comments # <<>>
    /\ old.documentation_review_comments # <<>>
           => new.documentation_review_comments # <<>>
    /\ old.examples_review_comments # <<>> => new.examples_review_comments # <<>>

\* C9: a helper constructed while the file exists takes its mapping from the
\* file and leaves the file alone: the mapping is the one the previous process
\* left; and no step, of a method or of a restart, returns a record's state,
\* issue reference or logs to the initial value.
C9_RestartKeepsProgress ==
    [][/\ (~running /\ running' /\ workflow_file.exists) =>
              /\ workflow_status' = recorded
              /\ workflow_file' = workflow_file
       /\ recorded # <<>> =>
              /\ Len(recorded') = Len(recorded)
              /\ \A i \in 1..Len(recorded) :
                     /\ recorded'[i].k = recorded[i].k
                     /\ Progressed(recorded[i].v, recorded'[i].v)]_vars

\* a restarted helper holds a record that is past PENDING
C9_Witness ==
    /\ lastOp.name = "load_existing"
    /\ running
    /\ Gate(workflow_status, "src/utils/types.rs") = TESTS_PROVIDED
    /\ Lookup(workflow_status, "src/utils/types.rs").issue_number = Some("34")
    /\ Lookup(workflow_status, "src/utils/types.rs").test_review_comments
           = <<"add edge cases">>

\* C10: a helper constructed while the file is missing creates one record
\* per registry entry, in registry order, PENDING, without issue reference and
\* with empty notes and logs, and writes that mapping to the file.
C10_FirstRunSeeds ==
    [][(~running /\ running' /\ ~workflow_file.exists) =>
          /\ Len(workflow_status') = Len(ProjectFiles)
          /\ \A i \in 1..Len(ProjectFiles) :
                 /\ workflow_status'[i].k = ProjectFiles[i].source_file
                 /\ workflow_status'[i].v.source_file = ProjectFiles[i].source_file
                 /\ workflow_status'[i].v.workflow_state = PENDING
                 /\ workflow_status'[i].v.issue_number = None
                 /\ workflow_status'[i].v.notes = <<>>
                 /\ workflow_status'[i].v.test_review_comments = <<>>
                 /\ workflow_status'[i].v.implementation_review_comments = <<>>
                 /\ workflow_status'[i].v.documentation_review_comments = <<>>
                 /\ workflow_status'[i].v.examples_review_comments = <<>>
          /\ workflow_file'.exists
          /\ Parse(workflow_file'.data) = workflow_status']_vars

\* the first helper has just been constructed
C10_Witness ==
    /\ lastOp.name = "load_missing"
    /\ running
    /\ workflow_file.exists
    /\ Len(workflow_status) = Len(ProjectFiles)
    /\ \A i \in 1..Len(workflow_status) :
           workflow_status[i].v.workflow_state = PENDING

\* a file that is cut short or names a workflow state that does not exist
Malformed(file) ==
    /\ file.exists
    /\ \/ ~file.closed
       \/ \E i \in 1..Len(file.data) :
              \A st \in WorkflowState :
                  WorkflowStateName[st] # file.data[i].v.workflow_state

\* C11: a helper constructed on a malformed state file fails with an error:
\* the process does not start, no mapping is held, nothing is seeded and the
\* file is left as it was.
C11_CorruptFileRejected ==
    [][(~running /\ Malformed(workflow_file) /\ lastOp'.name = "load_existing")
       => /\ ~running'
          /\ result' = "Error"
          /\ workflow_status' = <<>>
          /\ workflow_file' = workflow_file]_vars

\* a start has failed on a file whose first record, once at TESTS_PROVIDED,
\* carries an unknown state name
C11_Witness ==
    /\ lastOp.name = "load_existing"
    /\ result = "Error"
    /\ ~running
    /\ workflow_file.closed
    /\ workflow_file.data[1].v.workflow_state = UnknownStateName
    /\ Gate(recorded, "src/utils/types.rs") = TESTS_PROVIDED

\* C12: a process that dies inside save leaves on disk either the complete
\* previous file or a complete new one.
C12_CrashAtomicSave ==
    [][lastOp'.name = "crash_in_save" =>
          \/ workflow_file' = workflow_file
          \/ /\ Loadable(workflow_file')
             /\ Len(workflow_file'.data) = Len(ProjectFiles)]_vars

\* C13: request_test_changes(comment) on a current task at TESTS_PROVIDED
\* moves it back to ISSUE_CREATED and appends the comment at the end of
\* test_review_comments; the other three logs and the issue reference stay.
C13_RequestTestChanges ==
    [][(/\ lastOp'.name = "request_test_changes"
        /\ lastOp'.from = TESTS_PROVIDED
        /\ result' = "True")
       => LET old == CurrentTracker
              new == Lookup(workflow_status', current_file'[1])
          IN  /\ new.workflow_state = ISSUE_CREATED
              /\ new.test_review_comments =
                     Append(old.test_review_comments, lastOp'.arg[1])
              /\ new.implementation_review_comments
                     = old.implementation_review_comments
              /\ new.documentation_review_comments
                     = old.documentation_review_comments
              /\ new.examples_review_comments = old.examples_review_comments
              /\ new.issue_number = old.issue_number]_vars

\* a second rollback has put its comment behind the first one
C13_Witness ==
    /\ lastOp = [name |-> "request_test_changes",
                 arg |-> Some("add edge cases"), from |-> TESTS_PROVIDED]
    /\ result = "True"
    /\ Gate(workflow_status, "src/utils/types.rs") = ISSUE_CREATED
    /\ Lookup(workflow_status, "src/utils/types.rs").test_review_comments
           = <<"", "add edge cases">>

\* C14: request_test_changes without a comment (none, or the empty string)
\* fails: the state stays TESTS_PROVIDED, no log grows, nothing is written.
C14_MissingCommentRejected ==
    [][(/\ lastOp'.name = "request_test_changes"
        /\ lastOp'.from = TESTS_PROVIDED
        /\ lastOp'.arg \in {None, Some("")})
       => /\ result' # "True"
          /\ workflow_status' = workflow_status
          /\ workflow_file' = workflow_file]_vars

\* C15: the command request-implementation-changes with a comment, on a
\* current task at IMPLEMENTATION_PROVIDED, is recorded: the task goes back
\* to TESTS_REVIEWED and the comment is appended to
\* implementation_review_comments.
C15_RequestImplementationChanges ==
    [][(/\ lastOp'.name = "do_request_implementation_changes"
        /\ lastOp'.from = IMPLEMENTATION_PROVIDED
        /\ lastOp'.arg # Some(""))
       => /\ running'
          /\ result' = "True"
          /\ Gate(workflow_status', get_current_file(workflow_status)[1])
                 = TESTS_REVIEWED
          /\ Lookup(workflow_status', get_current_file(workflow_status)[1])
                 .implementation_review_comments
                 = Append(CurrentTracker.implementation_review_comments,
                          lastOp'.arg[1])]_vars

\* C16: a method changes no tracker but the one of the file that
\* get_current_file returns when it is called: workflow state, issue number,
\* last_updated and logs of every other file are as before.
C16_Frame ==
    [][\A i \in 1..Len(workflow_status) :
          Some(workflow_status[i].k) # get_current_file(workflow_status)
              => workflow_status'[i] = workflow_status[i]]_vars

\* an issue recorded for the third file, the first one as it was completed
C16_Witness ==
    /\ lastOp.name = "record_issue"
    /\ lastOp.arg = Some("34")
    /\ result = "True"
    /\ current_file = Some("src/pattern/recognition.rs")
    /\ Gate(workflow_status, "src/pattern/recognition.rs") = ISSUE_CREATED
    /\ Lookup(workflow_status, "src/utils/types.rs").last_updated = 0
    /\ Lookup(workflow_status, "src/utils/types.rs").issue_number = Some("12")

\* C17: for an acyclic registry without dangling dependencies the current
\* file is a file of the registry, and there is none exactly when every
\* tracker is COMPLETED.
C17_CurrentTaskTotal ==
    LET r == get_current_file(workflow_status)
    IN  /\ r # None => \E i \in 1..Len(workflow_status) : workflow_status[i].k = r[1]
        /\ r = None <=> \A i \in 1..Len(workflow_status) :
                            workflow_status[i].v.workflow_state = COMPLETED

\* the mapping lists the files against their dependencies: the last one is
\* the current file
C17_Witness ==
    /\ lastOp.name = "get_next_action"
    /\ Len(workflow_status) = Len(RegFiles)
    /\ workflow_status[1].v.dependencies = <<"b.rs">>
    /\ workflow_status[2].v.dependencies = <<"c.rs">>
    /\ \A i \in 1..Len(workflow_status) :
           workflow_status[i].v.workflow_state = PENDING
    /\ current_file = Some("c.rs")

\* C18: with no current file each of the six methods reports failure,
\* changes no tracker and does not write the state file.
C18_NoCurrentTask ==
    [][(/\ get_current_file(workflow_status) = None
        /\ lastOp'.name \in {"record_issue", "record_tests", "approve_tests",
                             "request_test_changes", "record_implementation",
                             "approve_implementation"})
       => /\ result' = "False"
          /\ workflow_status' = workflow_status
          /\ workflow_file' = workflow_file]_vars

C18_Witness ==
    /\ lastOp.name = "approve_tests"
    /\ lastOp.arg = Some("add edge cases")
    /\ result = "False"
    /\ current_file = None
    /\ \A i \in 1..Len(workflow_status) :
           workflow_status[i].v.workflow_state = COMPLETED
    /\ workflow_file = save_workflow_status(workflow_status)

\* C19: a tracker that is COMPLETED stays COMPLETED, and no method changes
\* its issue number or its logs.
C19_CompletedIsFinal ==
    [][\A i \in 1..Len(workflow_status) :
          workflow_status[i].v.workflow_state = COMPLETED
              => /\ workflow_status'[i].v.workflow_state = COMPLETED
                 /\ workflow_status'[i].v.issue_number
                        = workflow_status[i].v.issue_number
                 /\ workflow_status'[i].v.test_review_comments
                        = workflow_status[i].v.test_review_comments
                 /\ workflow_status'[i].v.implementation_review_comments
                        = workflow_status[i].v.implementation_review_comments
                 /\ workflow_status'[i].v.documentation_review_comments
                        = workflow_status[i].v.documentation_review_comments
                 /\ workflow_status'[i].v.examples_review_comments
                        = workflow_status[i].v.examples_review_comments]_vars

\* tests sent back for the second file while the first one is COMPLETED
C19_Witness ==
    /\ lastOp.name = "request_test_changes"
    /\ result = "True"
    /\ current_file = Some("src/signal/weak_signal.rs")
    /\ Gate(workflow_status, "src/utils/types.rs") = COMPLETED
    /\ Gate(workflow_status, "src/signal/weak_signal.rs") = ISSUE_CREATED
    /\ Lookup(workflow_status, "src/signal/weak_signal.rs").test_review_comments
           = <<"add edge cases">>

\* C20: approve_tests and approve_implementation append a comment that is
\* present to their own log and to no other, leave the four logs alone when
\* the comment is absent or empty, and in both cases take the task from their
\* source state to the reviewed state.
C20_ApproveComment ==
    [][(lastOp'.name \in {"approve_tests", "approve_implementation"}
        /\ result' = "True")
       => LET old == CurrentTracker
              new == Lookup(workflow_status', current_file'[1])
              c == lastOp'.arg
              tests == lastOp'.name = "approve_tests"
              grown(log) == IF c # None /\ c # Some("")
                            THEN Append(log, c[1]) ELSE log
          IN  /\ new.test_review_comments =
                     IF tests THEN grown(old.test_review_comments)
                     ELSE old.test_review_comments
              /\ new.implementation_review_comments =
                     IF tests THEN old.implementation_review_comments
                     ELSE grown(old.implementation_review_comments)
              /\ new.documentation_review_comments
                     = old.documentation_review_comments
              /\ new.examples_review_comments = old.examples_review_comments
              /\ lastOp'.from = RequiredSource[lastOp'.name] =>
                     new.workflow_state = ForwardTarget[lastOp'.name]]_vars

\* tests approved with an empty comment: the state has advanced, the log is
\* as the rollback before had left it
C20_Witness ==
    /\ lastOp = [name |-> "approve_tests", arg |-> Some(""),
                 from |-> TESTS_PROVIDED]
    /\ result = "True"
    /\ Gate(workflow_status, "src/utils/types.rs") = TESTS_REVIEWED
    /\ Lookup(workflow_status, "src/utils/types.rs").test_review_comments
           = <<"add edge cases">>
    /\ Lookup(workflow_status, "src/utils/types.rs").implementation_review_comments
           = <<>>

IsPrefix(a, b) == Len(a) <= Len(b) /\ SubSeq(b, 1, Len(a)) = a

\* C21: after every step the mapping of a running helper has exactly the files
\* of the registry as its keys, and from one recorded mapping to the next, restarts
\* included, no key is added or removed and notes and each of the four review
\* logs of every file have their former value as a prefix.
C21_RecordsKeptLogsGrow ==
    [][/\ running' =>
              /\ Len(workflow_status') = Len(ProjectFiles)
              /\ {workflow_status'[i].k : i \in 1..Len(workflow_status')}
                     = RegistryIds
       /\ recorded # <<>> =>
              /\ Len(recorded') = Len(recorded)
              /\ \A i \in 1..Len(recorded) :
                     /\ recorded'[i].k = recorded[i].k
                     /\ IsPrefix(recorded[i].v.notes, recorded'[i].v.notes)
                     /\ IsPrefix(recorded[i].v.test_review_comments,
                                 recorded'[i].v.test_review_comments)
                     /\ IsPrefix(recorded[i].v.implementation_review_comments,
                                 recorded'[i].v.implementation_review_comments)
                     /\ IsPrefix(recorded[i].v.documentation_review_comments,
                                 recorded'[i].v.documentation_review_comments)
                     /\ IsPrefix(recorded[i].v.examples_review_comments,
                                 recorded'[i].v.examples_review_comments)]_vars

\* an approval has put a second comment behind the one of a rollback
C21_Witness ==
    /\ lastOp.name = "approve_tests"
    /\ lastOp.arg = Some("add edge cases")
    /\ result = "True"
    /\ Len(workflow_status) = Len(ProjectFiles)
    /\ Lookup(workflow_status, "src/utils/types.rs").test_review_comments
           = <<"add edge cases", "add edge cases">>

C24_SingleTaskInProgress ==
    running =>
        /\ \A i \in 1..Len(workflow_status) :
               Some(workflow_status[i].k) # get_current_file(workflow_status)
                   => workflow_status[i].v.workflow_state \in {PENDING, COMPLETED}
        /\ Cardinality({i \in 1..Len(workflow_status) :
               workflow_status[i].v.workflow_state \notin {PENDING, COMPLETED}}) <= 1

\* the first file has its implementation approved, the others wait
C24_Witness ==
    /\ lastOp.name = "approve_implementation"
    /\ result = "True"
    /\ current_file = Some("src/utils/types.rs")
    /\ Gate(workflow_status, "src/utils/types.rs") = IMPLEMENTATION_REVIEWED
    /\ \A i \in 2..Len(workflow_status) :
           workflow_status[i].v.workflow_state = PENDING

\* the first file of the mapping that is not COMPLETED
FirstOpen(ws) ==
    IF \A i \in 1..Len(ws) : ws[i].v.workflow_state = COMPLETED THEN None
    ELSE Some(ws[CHOOSE i \in 1..Len(ws) :
                     /\ ws[i].v.workflow_state # COMPLETED
                     /\ \A j \in 1..(i - 1) : ws[j].v.workflow_state = COMPLETED].k)

\* position of the current file in the mapping, one past the end for none
CurrentIndex(ws) ==
    IF get_current_file(ws) = None THEN Len(ws) + 1
    ELSE CHOOSE i \in 1..Len(ws) : ws[i].k = get_current_file(ws)[1]

\* C25: the built-in registry lists every file after its dependencies, the
\* current file is the first file of the mapping that is not COMPLETED, and
\* the position of the current file never decreases.
C25_RegistryOrder ==
    [][/\ \A i \in 1..Len(ProjectFiles) :
              \A d \in RegistryDependencies(ProjectFiles[i].source_file) :
                  \E j \in 1..(i - 1) : ProjectFiles[j].source_file = d
       /\ get_current_file(workflow_status) = FirstOpen(workflow_status)
       /\ get_current_file(workflow_status') = FirstOpen(workflow_status')
       /\ CurrentIndex(workflow_status') >= CurrentIndex(workflow_status)]_vars

\* the fourth file is current although the fifth is COMPLETED already
C25_Witness ==
    /\ lastOp.name = "record_tests"
    /\ result = "True"
    /\ current_file = Some("src/quantum/state.rs")
    /\ Gate(workflow_status, "src/quantum/state.rs") = TESTS_PROVIDED
    /\ Gate(workflow_status, "src/sync/phase.rs") = COMPLETED
    /\ Gate(workflow_status, "src/network/kuramoto.rs") = PENDING
    /\ \A i \in 1..3 : workflow_status[i].v.workflow_state = COMPLETED

\* C26: a file that is past PENDING has an issue number.
C26_IssueBeforeProgress ==
    running =>
        \A i \in 1..Len(workflow_status) :
            workflow_status[i].v.workflow_state # PENDING
                => workflow_status[i].v.issue_number # None

\* C27: get_next_action finds an entry of workflow_sequence for the state of
\* every current file, the table having one for every state but COMPLETED,
\* and answers that all is completed exactly when there is no current file.
C27_NextActionTotal ==
    lastOp.name = "get_next_action" =>
        /\ result # "KeyError"
        /\ DOMAIN workflow_sequence = WorkflowState \ {COMPLETED}
        /\ current_file = None <=> result = "All Scenario 1 files completed!"
        /\ current_file # None => result = workflow_sequence[lastOp.from]

\* the next action of the fifth file after its implementation was received
C27_Witness ==
    /\ lastOp.name = "get_next_action"
    /\ lastOp.from = IMPLEMENTATION_PROVIDED
    /\ result = "Review Implementation"
    /\ current_file = Some("src/sync/phase.rs")
    /\ Gate(workflow_status, "src/quantum/state.rs") = COMPLETED

\* FileStatus the specification gives to a workflow state
StatusOfState ==
    [s \in PENDING..IMPLEMENTATION_REVIEWED |->
        <<"FileStatus.PENDING", "FileStatus.PENDING", "FileStatus.TESTS_WRITTEN",
          "FileStatus.TESTS_REVIEWED", "FileStatus.CODE_IMPLEMENTED",
          "FileStatus.CODE_REVIEWED">>[s]]

StatusFollowsState(tracker) ==
    tracker.workflow_state \in DOMAIN StatusOfState
        => tracker.status = StatusOfState[tracker.workflow_state]

\* C28: status follows the workflow state: PENDING at PENDING and
\* ISSUE_CREATED, TESTS_WRITTEN at TESTS_PROVIDED, TESTS_REVIEWED at
\* TESTS_REVIEWED, CODE_IMPLEMENTED at IMPLEMENTATION_PROVIDED, CODE_REVIEWED
\* at IMPLEMENTATION_REVIEWED.  A method called in its source state on a
\* tracker whose status follows its state leaves a tracker whose status
\* follows its state, request_test_changes included.
C28_StatusFollowsState ==
    [][(/\ lastOp'.name \in DOMAIN RequiredSource
        /\ lastOp'.from = RequiredSource[lastOp'.name]
        /\ result' = "True"
        /\ StatusFollowsState(CurrentTracker))
       => StatusFollowsState(Lookup(workflow_status', current_file'[1]))]_vars

====
